---- MODULE Spec2Model ----
(***************************************************************************)
(* A model of beta_plane/arakawac.py: the Arakawa-C staggered grid, its    *)
(* three padded stores, the logical views over them, the state accessor,   *)
(* the finite-difference and averaging operators and the boundary hooks.   *)
(*                                                                         *)
(* numpy arrays are records [shape, at]: shape is the tuple of dimensions  *)
(* and at maps 0-based index tuples to values.  Array values are exact     *)
(* rationals <<numerator, denominator>> in lowest terms: the rounding of   *)
(* floating-point arithmetic is not modelled.                              *)
(***************************************************************************)
EXTENDS Integers, Sequences, FiniteSets, TLC

VARIABLES
    nx, ny, Lx, Ly,      \* constructor arguments, kept as attributes
    _u, _v, _phi,        \* the padded stores
    dx, dy,              \* cell sizes
    ux, vx, vy, uy,      \* node positions
    phix, phiy,          \* aliases of vx and uy
    field,               \* the caller-owned array last passed to a method
    op,                  \* the last call made on the grid
    args,                \* its arguments
    ret,                 \* its return value
    err,                 \* the exception it raised, or "none"
    pre,                 \* the three stores before that call
    nops                 \* number of mutating calls made so far

vars == <<nx, ny, Lx, Ly, _u, _v, _phi, dx, dy, ux, vx, vy, uy, phix, phiy,
          field, op, args, ret, err, pre, nops>>

geometry == <<nx, ny, Lx, Ly, dx, dy, ux, vx, vy, uy, phix, phiy>>

-----------------------------------------------------------------------------
(* Bounds of the model *)

\* grids of 1..MaxN cells along each axis
MaxN == 2

\* at most MaxOps mutating calls in one behaviour
MaxOps == 2

\* the domain extents (Lx, Ly) a grid is constructed with
Extents == {<<2, 3>>, <<4, 2>>}

\* base values of the arrays handed to the grid
Fills == {1, 4}

-----------------------------------------------------------------------------
(* Exact rational arithmetic *)

Abs(n) == IF n < 0 THEN -n ELSE n

Max(a, b) == IF a >= b THEN a ELSE b

RECURSIVE GCD(_, _)
GCD(a, b) == IF b = 0 THEN a ELSE GCD(b, a % b)

\* the rational n/d in lowest terms with a positive denominator
Rat(n, d) ==
    LET g == GCD(Abs(n), Abs(d))
        s == IF d < 0 THEN -1 ELSE 1
    IN  <<(s * n) \div g, (s * d) \div g>>

R(n) == <<n, 1>>

RAdd(a, b) == Rat(a[1] * b[2] + b[1] * a[2], a[2] * b[2])

RSub(a, b) == Rat(a[1] * b[2] - b[1] * a[2], a[2] * b[2])

RMul(a, b) == Rat(a[1] * b[1], a[2] * b[2])

RDiv(a, b) == Rat(a[1] * b[2], a[2] * b[1])

Zero == R(0)

Half == Rat(1, 2)

Quarter == Rat(1, 4)

-----------------------------------------------------------------------------
(* numpy arrays *)

\* the index tuples of a 2-D array of r rows and c columns
Index(r, c) == (0 .. r - 1) \X (0 .. c - 1)

\* a 0-d array (a scalar)
Scalar(x) == [shape |-> <<>>, at |-> [idx \in {<<>>} |-> x]]

Rows(a) == IF Len(a.shape) = 2 THEN a.shape[1] ELSE 1

Cols(a) == IF Len(a.shape) = 2 THEN a.shape[2] ELSE 1

\* the cell of a that numpy reads for position (i, j) of a broadcast result
Cell(a, i, j) ==
    IF Len(a.shape) = 0
    THEN a.at[<<>>]
    ELSE a.at[<<IF a.shape[1] = 1 THEN 0 ELSE i, IF a.shape[2] = 1 THEN 0 ELSE j>>]

\* np.zeros(shape)
zeros(r, c) == [shape |-> <<r, c>>, at |-> [idx \in Index(r, c) |-> Zero]]

\* basic slicing a[top : r - bottom, left : c - right], as numpy clips it
Trim(a, top, bottom, left, right) ==
    LET r == Max(0, Rows(a) - top - bottom)
        c == Max(0, Cols(a) - left - right)
    IN  [shape |-> <<r, c>>,
         at    |-> [idx \in Index(r, c) |-> a.at[<<idx[1] + top, idx[2] + left>>]]]

\* numpy's rule for assigning value into an array of the given shape
Broadcastable(value, shape) ==
    \/ Len(value.shape) = 0
    \/ /\ value.shape[1] \in {1, shape[1]}
       /\ value.shape[2] \in {1, shape[2]}

\* two operands of an elementwise operation can be combined
Compatible(a, b) ==
    /\ Rows(a) = Rows(b) \/ Rows(a) = 1 \/ Rows(b) = 1
    /\ Cols(a) = Cols(b) \/ Cols(a) = 1 \/ Cols(b) = 1

\* the result of an elementwise operation that numpy refuses
BroadcastError == [shape |-> <<-1>>, at |-> <<>>]

\* the shape of the result of an elementwise operation on a and b
Broadcast(a, b) ==
    <<IF Rows(a) = 1 THEN Rows(b) ELSE Rows(a), IF Cols(a) = 1 THEN Cols(b) ELSE Cols(a)>>

\* a + b, elementwise with numpy's broadcasting
Add(a, b) ==
    IF Compatible(a, b)
    THEN [shape |-> Broadcast(a, b),
          at    |-> [idx \in Index(Broadcast(a, b)[1], Broadcast(a, b)[2]) |->
                        RAdd(Cell(a, idx[1], idx[2]), Cell(b, idx[1], idx[2]))]]
    ELSE BroadcastError

\* a - b, elementwise with numpy's broadcasting
Sub(a, b) ==
    IF Compatible(a, b)
    THEN [shape |-> Broadcast(a, b),
          at    |-> [idx \in Index(Broadcast(a, b)[1], Broadcast(a, b)[2]) |->
                        RSub(Cell(a, idx[1], idx[2]), Cell(b, idx[1], idx[2]))]]
    ELSE BroadcastError

\* q * a for a number q
Times(q, a) == [a EXCEPT !.at = [idx \in DOMAIN a.at |-> RMul(q, a.at[idx])]]

\* a / q for a number q
Over(a, q) == [a EXCEPT !.at = [idx \in DOMAIN a.at |-> RDiv(a.at[idx], q)]]

\* Python's index k into a dimension of length n
Idx(n, k) == IF k < 0 THEN n + k ELSE k

-----------------------------------------------------------------------------
(* The views and the state accessor *)

\* the accessor with its row slice off by one: store[:-2, 1:-1]
View_Shifted(store) == Trim(store, 0, 2, 1, 1)

\* store[1:-1, 1:-1]
View(store) == Trim(store, 1, 1, 1, 1)

u == View(_u)

v == View(_v)

phi == View(_phi)

\* the state getter: np.array([self.u, self.v, self.phi]).  The three views
\* differ in shape, so the result is a 1-D object array of the three arrays.
state == <<u, v, phi>>

\* the write off by one row: store[:-2, 1:-1] = value
SetView_Shifted(store, value) ==
    [store EXCEPT !.at =
        [idx \in DOMAIN store.at |->
            IF /\ idx[1] \in 0 .. Rows(store) - 3
               /\ idx[2] \in 1 .. Cols(store) - 2
            THEN Cell(value, idx[1], idx[2] - 1)
            ELSE store.at[idx]]]

\* the attribute rebound to the value instead of the array written in place
SetView_Rebind(store, value) == value

\* the store after view[:] = value, where view is store[1:-1, 1:-1] and value
\* can be broadcast to the view's shape: the view shares the store's cells
SetView(store, value) ==
    [store EXCEPT !.at =
        [idx \in DOMAIN store.at |->
            IF /\ idx[1] \in 1 .. Rows(store) - 2
               /\ idx[2] \in 1 .. Cols(store) - 2
            THEN Cell(value, idx[1] - 1, idx[2] - 1)
            ELSE store.at[idx]]]

stores == [_u |-> _u, _v |-> _v, _phi |-> _phi]

-----------------------------------------------------------------------------
(* Construction *)

\* ArakawaCGrid(n, m, lx, ly), under a numpy that still has np.float (before
\* 1.24; later ones raise AttributeError in the constructor).  Lx and Ly are
\* taken as reals, so -Lx/2 is the exact half.
Construct(n, m, lx, ly) ==
    LET ddx == RDiv(R(lx), R(n))
        ddy == RDiv(R(ly), R(m))
        cx  == [shape |-> <<n, 1>>,
                at    |-> [idx \in Index(n, 1) |->
                    RAdd(RAdd(RDiv(R(-lx), R(2)), RDiv(ddx, R(2))), RMul(R(idx[1]), ddx))]]
        cy  == [shape |-> <<1, m>>,
                at    |-> [idx \in Index(1, m) |->
                    RAdd(RAdd(RDiv(R(-ly), R(2)), RDiv(ddy, R(2))), RMul(R(idx[2]), ddy))]]
    IN  /\ nx = n /\ ny = m /\ Lx = lx /\ Ly = ly
        /\ _u = zeros(n + 3, m + 2)
        /\ _v = zeros(n + 2, m + 3)
        /\ _phi = zeros(n + 2, m + 2)
        /\ dx = ddx
        /\ dy = ddy
        /\ ux = [shape |-> <<n + 1, 1>>,
                 at    |-> [idx \in Index(n + 1, 1) |->
                     RAdd(RDiv(R(-lx), R(2)), RMul(R(idx[1]), ddx))]]
        /\ vx = cx
        /\ vy = [shape |-> <<1, m + 1>>,
                 at    |-> [idx \in Index(1, m + 1) |->
                     RAdd(RDiv(R(-ly), R(2)), RMul(R(idx[2]), ddy))]]
        /\ uy = cy
        /\ phix = cx
        /\ phiy = cy

Init ==
    /\ \E n \in 1 .. MaxN, m \in 1 .. MaxN, l \in Extents :
           Construct(n, m, l[1], l[2])
    /\ field = Scalar(Zero)
    /\ op = "__init__"
    /\ args = <<>>
    /\ ret = <<>>
    /\ err = "none"
    /\ pre = [_u |-> zeros(0, 0), _v |-> zeros(0, 0), _phi |-> zeros(0, 0)]
    /\ nops = 0

-----------------------------------------------------------------------------
(* The state setter *)

\* what  u, v, phi = value; self.u[:] = u; self.v[:] = v; self.phi[:] = phi
\* leaves in the stores and raises: each assignment is done before the next is
\* tried, and the first one numpy refuses ends the call
StateSetter(value) ==
    LET uOk   == Broadcastable(value[1], u.shape)
        vOk   == Broadcastable(value[2], v.shape)
        phiOk == Broadcastable(value[3], phi.shape)
    IN  /\ nops < MaxOps
        /\ nops' = nops + 1
        /\ op' = "state.setter"
        /\ args' = value
        /\ ret' = <<>>
        /\ pre' = stores
        /\ _u' = IF uOk THEN SetView(_u, value[1]) ELSE _u
        /\ _v' = IF uOk /\ vOk THEN SetView(_v, value[2]) ELSE _v
        /\ _phi' = IF uOk /\ vOk /\ phiOk THEN SetView(_phi, value[3]) ELSE _phi
        /\ err' = IF uOk /\ vOk /\ phiOk THEN "none" ELSE "ValueError"
        /\ UNCHANGED <<geometry, field>>

\* the state getter
StateGetter ==
    /\ op' = "state.getter"
    /\ args' = <<>>
    /\ ret' = state
    /\ err' = "none"
    /\ pre' = stores
    /\ UNCHANGED <<geometry, _u, _v, _phi, field, nops>>

\* grid.<f>[:] = value, a write through the view the accessor f returns
ViewWrite(f, value) ==
    LET ok == Broadcastable(value, View(stores[f]).shape)
        new == IF ok THEN SetView(stores[f], value) ELSE stores[f]
    IN  /\ nops < MaxOps
        /\ nops' = nops + 1
        /\ op' = "view.write"
        /\ args' = <<f, value>>
        /\ ret' = <<>>
        /\ pre' = stores
        /\ err' = IF ok THEN "none" ELSE "ValueError"
        /\ _u' = IF f = "_u" THEN new ELSE _u
        /\ _v' = IF f = "_v" THEN new ELSE _v
        /\ _phi' = IF f = "_phi" THEN new ELSE _phi
        /\ UNCHANGED <<geometry, field>>

\* grid.<f> = value: u, v and phi are properties without a setter
SetAttr(f, value) ==
    /\ op' = "setattr"
    /\ args' = <<f, value>>
    /\ ret' = <<>>
    /\ pre' = stores
    /\ err' = "AttributeError"
    /\ UNCHANGED <<geometry, _u, _v, _phi, field, nops>>

-----------------------------------------------------------------------------
(* Finite differences and averages *)

\* the difference written as a sum: (psi[1:,:] + psi[:-1,:]) / self.dx
diffx_Sum(psi) == Over(Add(Trim(psi, 1, 0, 0, 0), Trim(psi, 0, 1, 0, 0)), dx)

\* (psi[1:,:] - psi[:-1,:]) / self.dx
diffx(psi) == Over(Sub(Trim(psi, 1, 0, 0, 0), Trim(psi, 0, 1, 0, 0)), dx)

\* (psi[:, 1:] - psi[:,:-1]) / self.dy
diffy(psi) == Over(Sub(Trim(psi, 0, 0, 1, 0), Trim(psi, 0, 0, 0, 1)), dy)

\* the last term a copy of the third: ... + psi[1:, :-1] + psi[1:, :-1]
centre_average_Copied(psi) ==
    Times(Quarter,
          Add(Add(Add(Trim(psi, 0, 1, 0, 1), Trim(psi, 0, 1, 1, 0)),
                  Trim(psi, 1, 0, 0, 1)),
              Trim(psi, 1, 0, 0, 1)))

\* 0.25*(psi[:-1,:-1] + psi[:-1,1:] + psi[1:, :-1] + psi[1:,1:])
centre_average(psi) ==
    Times(Quarter,
          Add(Add(Add(Trim(psi, 0, 1, 0, 1), Trim(psi, 0, 1, 1, 0)),
                  Trim(psi, 1, 0, 0, 1)),
              Trim(psi, 1, 0, 1, 0)))

\* self.diffx(self.u) + self.diffy(self.v)
divergence == Add(diffx(u), diffy(v))

\* the two slices on the other axes: diffy(u)[:, 1:-1] - diffx(v)[1:-1, :]
vorticity_Swapped == Sub(Trim(diffy(u), 0, 0, 1, 1), Trim(diffx(v), 1, 1, 0, 0))

\* self.diffy(self.u)[1:-1, :] - self.diffx(self.v)[:, 1:-1]
vorticity == Sub(Trim(diffy(u), 1, 1, 0, 0), Trim(diffx(v), 0, 0, 1, 1))

\* (self.centre_average(self._u)[1:-1, :], self.centre_average(self._v)[:, 1:-1])
uvatuv ==
    <<Trim(centre_average(_u), 1, 1, 0, 0), Trim(centre_average(_v), 0, 0, 1, 1)>>

\* a call of a method that reads the grid and returns a value
Query(name, value) ==
    /\ op' = name
    /\ args' = <<>>
    /\ ret' = value
    /\ err' = "none"
    /\ pre' = stores
    /\ UNCHANGED <<geometry, _u, _v, _phi, field, nops>>

Divergence == Query("divergence", divergence)

Vorticity == Query("vorticity", vorticity)

Uvatuv == Query("uvatuv", uvatuv)

-----------------------------------------------------------------------------
(* The boundary hooks *)

\* the second corner averaged with a neighbour of the first:
\* field[-1, 0] = 0.5*(field[-2, 0] + field[0, 1])
FixCorners_WrongNeighbour(f) ==
    LET r  == Rows(f)
        c  == Cols(f)
        avg(g, p, q) == RMul(Half, RAdd(g.at[p], g.at[q]))
        f1 == [f EXCEPT !.at[<<0, 0>>] = avg(f, <<1, 0>>, <<0, 1>>)]
        f2 == [f1 EXCEPT !.at[<<Idx(r, -1), 0>>] =
                  avg(f1, <<Idx(r, -2), 0>>, <<0, 1>>)]
        f3 == [f2 EXCEPT !.at[<<0, Idx(c, -1)>>] =
                  avg(f2, <<1, Idx(c, -1)>>, <<0, Idx(c, -2)>>)]
        f4 == [f3 EXCEPT !.at[<<Idx(r, -1), Idx(c, -1)>>] =
                  avg(f3, <<Idx(r, -1), Idx(c, -2)>>, <<Idx(r, -2), Idx(c, -1)>>)]
    IN  f4

\* the array _fix_boundary_corners leaves in place of f: four assignments in
\* order, each reading the cells as the earlier ones left them
FixCorners(f) ==
    LET r  == Rows(f)
        c  == Cols(f)
        avg(g, p, q) == RMul(Half, RAdd(g.at[p], g.at[q]))
        f1 == [f EXCEPT !.at[<<0, 0>>] = avg(f, <<1, 0>>, <<0, 1>>)]
        f2 == [f1 EXCEPT !.at[<<Idx(r, -1), 0>>] =
                  avg(f1, <<Idx(r, -2), 0>>, <<Idx(r, -1), 1>>)]
        f3 == [f2 EXCEPT !.at[<<0, Idx(c, -1)>>] =
                  avg(f2, <<1, Idx(c, -1)>>, <<0, Idx(c, -2)>>)]
        f4 == [f3 EXCEPT !.at[<<Idx(r, -1), Idx(c, -1)>>] =
                  avg(f3, <<Idx(r, -1), Idx(c, -2)>>, <<Idx(r, -2), Idx(c, -1)>>)]
    IN  f4

\* self._fix_boundary_corners(a) for an array a the caller owns
FixBoundaryCorners(a) ==
    /\ nops < MaxOps
    /\ nops' = nops + 1
    /\ op' = "_fix_boundary_corners"
    /\ args' = <<"field", a>>
    /\ ret' = <<>>
    /\ err' = "none"
    /\ pre' = stores
    /\ field' = FixCorners(a)
    /\ UNCHANGED <<geometry, _u, _v, _phi>>

\* self._fix_boundary_corners(self.<f>) for one of the padded stores
FixBoundaryCornersStore(f) ==
    /\ nops < MaxOps
    /\ nops' = nops + 1
    /\ op' = "_fix_boundary_corners"
    /\ args' = <<f, stores[f]>>
    /\ ret' = <<>>
    /\ err' = "none"
    /\ pre' = stores
    /\ _u' = IF f = "_u" THEN FixCorners(_u) ELSE _u
    /\ _v' = IF f = "_v" THEN FixCorners(_v) ELSE _v
    /\ _phi' = IF f = "_phi" THEN FixCorners(_phi) ELSE _phi
    /\ UNCHANGED <<geometry, field>>

\* the exception  raise NotImplemented  ends in: NotImplemented is no exception
\* class, so the raise statement itself fails
RaiseNotImplemented == "TypeError"

\* self._apply_boundary_conditions() on the base grid
ApplyBoundaryConditions ==
    /\ op' = "_apply_boundary_conditions"
    /\ args' = <<>>
    /\ ret' = <<>>
    /\ err' = RaiseNotImplemented
    /\ pre' = stores
    /\ UNCHANGED <<geometry, _u, _v, _phi, field, nops>>

\* self._apply_boundary_conditions_to(a) on the base grid
ApplyBoundaryConditionsTo(a) ==
    /\ op' = "_apply_boundary_conditions_to"
    /\ args' = <<a>>
    /\ ret' = <<>>
    /\ err' = RaiseNotImplemented
    /\ pre' = stores
    /\ field' = a
    /\ UNCHANGED <<geometry, _u, _v, _phi, nops>>

\* the cells of the one-cell ring around a padded store
Ghost(store) ==
    {idx \in DOMAIN store.at :
        \/ idx[1] \in {0, Rows(store) - 1}
        \/ idx[2] \in {0, Cols(store) - 1}}

\* a boundary routine of a subclass: it writes the ghost ring of a store
GhostFill(store, k) ==
    [store EXCEPT !.at =
        [idx \in DOMAIN store.at |->
            IF idx \in Ghost(store)
            THEN R(k + idx[1] * idx[1] + 5 * idx[2])
            ELSE store.at[idx]]]

\* _apply_boundary_conditions() as a subclass supplies it
SubclassBoundary(k) ==
    /\ nops < MaxOps
    /\ nops' = nops + 1
    /\ op' = "subclass._apply_boundary_conditions"
    /\ args' = <<k>>
    /\ ret' = <<>>
    /\ err' = "none"
    /\ pre' = stores
    /\ _u' = GhostFill(_u, k)
    /\ _v' = GhostFill(_v, k)
    /\ _phi' = GhostFill(_phi, k)
    /\ UNCHANGED <<geometry, field>>

-----------------------------------------------------------------------------
(* The values the callers hand to the grid *)

Fields == {"_u", "_v", "_phi"}

\* the shape of the logical view of a store
LogicalShape(f) == View(stores[f]).shape

\* an array without two equal neighbours and without constant differences
Bumpy(r, c, k) ==
    [shape |-> <<r, c>>,
     at    |-> [idx \in Index(r, c) |->
                   R(k + 2 * idx[1] * idx[1] + 3 * idx[2] * idx[2] + idx[1] * idx[2])]]

\* an array of one value
Const(r, c, k) == [shape |-> <<r, c>>, at |-> [idx \in Index(r, c) |-> R(k)]]

\* how the shape of a value relates to the shape sh it is assigned to
ShapeKinds == {"match", "scalar", "row", "col", "bad"}

Shaped(kind, sh, k) ==
    CASE kind = "match"  -> Bumpy(sh[1], sh[2], k)
      [] kind = "const"  -> Const(sh[1], sh[2], k)
      [] kind = "scalar" -> Scalar(R(k))
      [] kind = "row"    -> Bumpy(1, sh[2], k)
      [] kind = "col"    -> Bumpy(sh[1], 1, k)
      [] kind = "bad"    -> Bumpy(sh[1] + 1, sh[2], k)

\* a (u, v, phi) value whose components have the given kinds
Triple(kinds, k) ==
    <<Shaped(kinds[1], LogicalShape("_u"), k),
      Shaped(kinds[2], LogicalShape("_v"), k + 1),
      Shaped(kinds[3], LogicalShape("_phi"), k + 2)>>

\* triples with at most one component that is not of kind "match"
OneOff ==
    {kk \in ShapeKinds \X ShapeKinds \X ShapeKinds :
        Cardinality({i \in 1 .. 3 : kk[i] # "match"}) <= 1}

\* the arrays passed to the boundary hooks
Scratch == {Bumpy(r, c, k) : r \in 2 .. MaxN + 2, c \in 2 .. MaxN + 2, k \in Fills}

-----------------------------------------------------------------------------
(* Specifications *)

\* every call, on a few values each
Next ==
    \/ \E kk \in {<<"match", "match", "match">>, <<"scalar", "match", "match">>,
                  <<"match", "bad", "match">>} : StateSetter(Triple(kk, 1))
    \/ StateGetter
    \/ \E f \in Fields, kind \in {"match", "bad"} :
           ViewWrite(f, Shaped(kind, LogicalShape(f), 4))
    \/ \E f \in Fields : SetAttr(f, Shaped("match", LogicalShape(f), 4))
    \/ Divergence
    \/ Vorticity
    \/ Uvatuv
    \/ FixBoundaryCorners(Bumpy(3, 3, 1))
    \/ \E f \in Fields : FixBoundaryCornersStore(f)
    \/ ApplyBoundaryConditions
    \/ ApplyBoundaryConditionsTo(Bumpy(3, 3, 1))
    \/ SubclassBoundary(1)

Spec == Init /\ [][Next]_vars

\* the state accessor, on every kind of value
NextState ==
    \/ \E kk \in OneOff, k \in Fills : StateSetter(Triple(kk, k))
    \/ StateGetter
    \/ SubclassBoundary(1)

SpecState == Init /\ [][NextState]_vars

\* writes through the views
NextView ==
    \/ \E f \in Fields, kind \in ShapeKinds, k \in Fills :
           ViewWrite(f, Shaped(kind, LogicalShape(f), k))
    \/ \E f \in Fields : SetAttr(f, Shaped("match", LogicalShape(f), 1))
    \/ SubclassBoundary(1)

SpecView == Init /\ [][NextView]_vars

\* the derived quantities, on uniform and on non-uniform flows
NextOps ==
    \/ \E kk \in {"match", "const"} \X {"match", "const"} \X {"match"}, k \in Fills :
           StateSetter(Triple(kk, k))
    \/ SubclassBoundary(1)
    \/ Divergence
    \/ Vorticity
    \/ Uvatuv

SpecOps == Init /\ [][NextOps]_vars

\* the boundary hooks
NextBoundary ==
    \/ StateSetter(Triple(<<"match", "match", "match">>, 1))
    \/ SubclassBoundary(1)
    \/ ApplyBoundaryConditions
    \/ \E k \in Fills : ApplyBoundaryConditionsTo(Bumpy(nx + 2, ny + 2, k))
    \/ \E a \in Scratch : FixBoundaryCorners(a)
    \/ \E f \in Fields : FixBoundaryCornersStore(f)

SpecBoundary == Init /\ [][NextBoundary]_vars

-----------------------------------------------------------------------------
(* Properties *)

\* the value is a (u, v, phi) triple of the three logical shapes
LogicalTriple(value) ==
    /\ value[1].shape = <<nx + 1, ny>>
    /\ value[2].shape = <<nx, ny + 1>>
    /\ value[3].shape = <<nx, ny>>

\* a and b hold the same values all around their ghost ring
GhostSame(a, b) == \A idx \in Ghost(a) : a.at[idx] = b.at[idx]

GhostsSame ==
    /\ GhostSame(_u, pre._u)
    /\ GhostSame(_v, pre._v)
    /\ GhostSame(_phi, pre._phi)

\* the call was made on a grid whose ghost rings hold boundary values
GhostsFilled == _u.at[<<0, 1>>] # Zero /\ _v.at[<<1, 0>>] # Zero /\ _phi.at[<<0, 0>>] # Zero

\* C1: a state assignment that fails on a shape leaves _u, _v and _phi as they
\* were before the assignment (no partial write)
C1_NoPartialWrite ==
    (op = "state.setter" /\ err = "ValueError") => stores = pre

\* C2: a state assignment with a component whose shape is not the logical shape
\* fails with a dimension mismatch, and that component's store is not written
C2_MismatchFails ==
    op = "state.setter" =>
        /\ args[1].shape # <<nx + 1, ny>> => (err = "ValueError" /\ _u = pre._u)
        /\ args[2].shape # <<nx, ny + 1>> => (err = "ValueError" /\ _v = pre._v)
        /\ args[3].shape # <<nx, ny>> => (err = "ValueError" /\ _phi = pre._phi)

\* C3: the boundary hooks of the base grid fail with the "unimplemented" error
\* kind and leave the stores and the passed field unchanged
C3_Unimplemented ==
    /\ op = "_apply_boundary_conditions" =>
           (err = "NotImplementedError" /\ stores = pre)
    /\ op = "_apply_boundary_conditions_to" =>
           (err = "NotImplementedError" /\ stores = pre /\ field = args[1])

\* C4: after a triple of the three logical shapes is written through state, a
\* read of state returns the written values and the ghost rings are as before
C4_RoundTrip ==
    (op = "state.setter" /\ LogicalTriple(args)) =>
        /\ err = "none"
        /\ state = args
        /\ GhostsSame

C4_Witness ==
    /\ op = "state.setter"
    /\ LogicalTriple(args)
    /\ err = "none"
    /\ GhostsFilled
    /\ u # View(pre._u) /\ v # View(pre._v) /\ phi # View(pre._phi)

\* the stores and the views have the shapes the grid was constructed with
ShapesKept ==
    /\ _u.shape = <<nx + 3, ny + 2>>
    /\ _v.shape = <<nx + 2, ny + 3>>
    /\ _phi.shape = <<nx + 2, ny + 2>>
    /\ DOMAIN _u.at = (0 .. nx + 2) \X (0 .. ny + 1)
    /\ DOMAIN _v.at = (0 .. nx + 1) \X (0 .. ny + 2)
    /\ DOMAIN _phi.at = (0 .. nx + 1) \X (0 .. ny + 1)
    /\ u.shape = <<nx + 1, ny>>
    /\ v.shape = <<nx, ny + 1>>
    /\ phi.shape = <<nx, ny>>

\* C5: through every sequence of calls the stores keep the shapes (nx+3, ny+2),
\* (nx+2, ny+3), (nx+2, ny+2), the views the shapes (nx+1, ny), (nx, ny+1),
\* (nx, ny), and dx, dy and the coordinate vectors their values
C5_ShapesKept ==
    /\ []ShapesKept
    /\ [][UNCHANGED <<nx, ny, dx, dy, ux, vx, vy, uy, phix, phiy>>]_vars

C5_Witness ==
    /\ nops = 2
    /\ op = "view.write"
    /\ err = "ValueError"
    /\ u # zeros(nx + 1, ny)

C7_AsStated ==
    op = "vorticity" =>
        LET a == Trim(diffy(u), 0, 0, 1, 1)
            b == Trim(diffx(v), 1, 1, 0, 0)
        IN  a.shape = b.shape /\ ret = Sub(a, b)

\* C7: vorticity() is diffy(u) without its first and last row minus diffx(v)
\* without its first and last column: at interior corner (i, j) it is
\* diffy(u)[i+1, j] - diffx(v)[i, j+1]; both terms and the result have shape
\* (nx-1, ny-1), one value per interior corner
C7_Vorticity ==
    op = "vorticity" =>
        /\ Rows(diffy(u)) - 2 = nx - 1 /\ Cols(diffy(u)) = ny - 1
        /\ Rows(diffx(v)) = nx - 1 /\ Cols(diffx(v)) - 2 = ny - 1
        /\ ret.shape = <<nx - 1, ny - 1>>
        /\ DOMAIN ret.at = (0 .. nx - 2) \X (0 .. ny - 2)
        /\ \A i \in 0 .. nx - 2, j \in 0 .. ny - 2 :
               ret.at[<<i, j>>] =
                   RSub(diffy(u).at[<<i + 1, j>>], diffx(v).at[<<i, j + 1>>])

C7_Witness ==
    /\ op = "vorticity"
    /\ nx >= 2 /\ ny >= 2
    /\ ret.at[<<0, 0>>] # Zero
    /\ u # zeros(nx + 1, ny)
    /\ GhostsFilled

\* every cell of a holds the same value
Uniform(a) == \A p, q \in DOMAIN a.at : a.at[p] = a.at[q]

\* C8: with u constant and v constant over the logical views, divergence() is
\* an (nx, ny) array of zeros, whatever the ghost rings hold
C8_UniformDivergence ==
    (op = "divergence" /\ Uniform(u) /\ Uniform(v)) => ret = zeros(nx, ny)

C8_Witness ==
    /\ op = "divergence"
    /\ Uniform(u) /\ Uniform(v)
    /\ u.at[<<0, 0>>] # Zero
    /\ v.at[<<0, 0>>] # u.at[<<0, 0>>]
    /\ GhostsFilled

\* the mean of four values
Mean4(a, b, c, d) == RDiv(RAdd(RAdd(a, b), RAdd(c, d)), R(4))

\* logical u and v at (i, j), where -1 and the last index + 1 are ghost cells
UAt(i, j) == _u.at[<<i + 1, j + 1>>]

VAt(i, j) == _v.at[<<i + 1, j + 1>>]

\* C9: uvatuv() returns ubar of shape (nx, ny+1), the mean of u at rows i, i+1
\* and columns j-1, j, and vbar of shape (nx+1, ny), the mean of v at rows
\* i-1, i and columns j, j+1; no store changes
C9_Uvatuv ==
    op = "uvatuv" =>
        /\ ret[1].shape = <<nx, ny + 1>>
        /\ ret[2].shape = <<nx + 1, ny>>
        /\ \A i \in 0 .. nx - 1, j \in 0 .. ny :
               ret[1].at[<<i, j>>] =
                   Mean4(UAt(i, j - 1), UAt(i, j), UAt(i + 1, j - 1), UAt(i + 1, j))
        /\ \A i \in 0 .. nx, j \in 0 .. ny - 1 :
               ret[2].at[<<i, j>>] =
                   Mean4(VAt(i - 1, j), VAt(i - 1, j + 1), VAt(i, j), VAt(i, j + 1))
        /\ stores = pre

C9_Witness ==
    /\ op = "uvatuv"
    /\ GhostsFilled
    /\ UAt(0, 0) # Zero /\ VAt(0, 0) # Zero
    /\ ~Uniform(u) /\ ~Uniform(v)

\* the four corners of an array
Corners(a) == {0, Rows(a) - 1} \X {0, Cols(a) - 1}

\* the cell next to corner p along the rows, and along the columns
RowNeighbour(a, p) == <<IF p[1] = 0 THEN 1 ELSE Rows(a) - 2, p[2]>>

ColNeighbour(a, p) == <<p[1], IF p[2] = 0 THEN 1 ELSE Cols(a) - 2>>

\* after is before with each corner the mean of its two neighbours
CornersFixed(before, after) ==
    /\ after.shape = before.shape
    /\ \A p \in Corners(after) :
           after.at[p] =
               RDiv(RAdd(after.at[RowNeighbour(after, p)],
                         after.at[ColNeighbour(after, p)]), R(2))
    /\ \A p \in DOMAIN before.at \ Corners(before) : after.at[p] = before.at[p]

\* the array the last call of _fix_boundary_corners worked on, as it left it
Fixed == IF args[1] = "field" THEN field ELSE stores[args[1]]

\* C10 as stated: for a field of at least two rows and two columns
C10_AsStated ==
    (op = "_fix_boundary_corners" /\ Rows(args[2]) >= 2 /\ Cols(args[2]) >= 2) =>
        CornersFixed(args[2], Fixed)

\* C10: for a field of at least three rows and three columns, after
\* _fix_boundary_corners each corner is the mean of its two edge neighbours
\* and every other cell is as before
C10_CornersFixed ==
    (op = "_fix_boundary_corners" /\ Rows(args[2]) >= 3 /\ Cols(args[2]) >= 3) =>
        CornersFixed(args[2], Fixed)

C10_Witness ==
    /\ op = "_fix_boundary_corners"
    /\ Rows(args[2]) >= 3 /\ Cols(args[2]) >= 3
    /\ \A p \in Corners(Fixed) : Fixed.at[p] # args[2].at[p]

====
